---- MODULE Spec2Model ----
(***************************************************************************)
(* Model lifecycle of the offline LLM manager: ActiveModelService, the     *)
(* screens that drive llmService / onnxImageGeneratorService directly,     *)
(* the IntentClassifier's temporary model swap, and the memory budget      *)
(* check described in the README.                                          *)
(*                                                                         *)
(* The image engine (onnxImageGeneratorService) keeps no state that the    *)
(* code reads: the image slot is reported from the store alone.            *)
(*                                                                         *)
(* JavaScript runs one handler at a time; a handler is suspended only at   *)
(* an `await`.  Every action below is therefore one run of a handler from  *)
(* one suspension point to the next.  An engine call (llmService.loadModel,*)
(* unloadModel, generateResponse, onnxImageGeneratorService.loadModel,     *)
(* unloadModel) is in flight from the action that issues it to the action  *)
(* that resumes its caller.                                                *)
(***************************************************************************)
EXTENDS Integers, FiniteSets, Sequences, TLC

\* ---------------------------------------------------------------- bounds
MaxInFlight == 2       \* operations that may be in progress at the same time
MaxMem == 8            \* admission inputs range over 0..MaxMem GiB
MaxHistory == 3        \* messages of a conversation handed to a context preparation
MaxMessageTokens == 2  \* estimated tokens of one message
MaxContext == 8        \* maxContextTokens ranges over 1..MaxContext
MaxGenerations == 3    \* generateResponse calls made in one run
MaxTokens == 2         \* tokens the engine emits in one generation

\* ------------------------------------------------------------ model data
NoModel == "null"      \* a null model id
NoPath == "nullpath"   \* a null file path

TextModelIds == {"small", "vision"}
ImageModelIds == {"sd"}
AllIds == TextModelIds \cup ImageModelIds

\* DownloadedModel.filePath / ONNXImageModel.modelPath
filePath == [m \in AllIds |-> "/models/" \o m]

\* DownloadedModel.mmProjPath: only the vision model has a projector
mmProjPath == [m \in AllIds |-> IF m = "vision" THEN "/models/vision-mmproj" ELSE NoPath]

\* memory unit: 0.1 GiB.  On the 8 GiB device the vision model alone is
\* above the budget, the small model and the image model together are not
fileSize == [m \in AllIds |->
              IF m = "sd" THEN 10 ELSE IF m = "vision" THEN 30 ELSE 20]
mmProjSize == [m \in AllIds |-> IF m = "vision" THEN 5 ELSE 0]
totalMemory == 80

\* ---------------------------------------------------------------- state
VARIABLES
  downloadedModels,     \* useAppStore: ids of the downloaded text models
  modelsOnDisk,         \* modelManager: text models still in storage
  activeModelId,        \* useAppStore.activeModelId
  activeImageModelId,   \* useAppStore.activeImageModelId
  loadingState,         \* ActiveModelService.loadingState
  notified,             \* notifyListeners() calls made by the last step
  loadedModelPath,      \* llmService: path of the model in the engine
  visionSupport,        \* llmService.getMultimodalSupport().vision
  isModelLoading,       \* ChatScreen state
  supportsVision,       \* ChatScreen state
  isLoading,            \* HomeScreen state
  isEjecting,           \* HomeScreen state
  task,                 \* the async calls in progress, one per caller
  answer,               \* what the last step returned to a caller, if anything
  lastIssued,           \* history: the text request issued last, when it is a
                        \* loadTextModel issued while another one was pending
  adm,                  \* inputs and result of a memory admission check
  activeConversationId, \* useChatStore.activeConversationId
  conversations,        \* useChatStore.conversations: the messages of each
  streamingMessage,     \* useChatStore.streamingMessage
  isStreaming,          \* useChatStore.isStreaming
  isThinking,           \* useChatStore.isThinking
  generatingForConversationRef,  \* ChatScreen: generatingForConversationRef.current
  debugInfo,            \* ChatScreen state: the context report of the last send
  generation,           \* the sends, their generateResponse calls and closures
  stopping,             \* handleStop suspended at stopGeneration
  prep,                 \* inputs of a context preparation
  listeners,            \* ActiveModelService.listeners
  received,             \* what each listener was last called with
  intentCache,          \* IntentClassifier: intentCache, in insertion order
  intentCall,           \* classifyIntent suspended at classifyWithLLM
  intent                \* what the last classifyIntent or quickCheck returned

vars == <<downloadedModels, modelsOnDisk, activeModelId, activeImageModelId,
          loadingState, notified, loadedModelPath, visionSupport,
          isModelLoading, supportsVision, isLoading,
          isEjecting, task, answer, lastIssued, adm,
          activeConversationId, conversations, streamingMessage, isStreaming,
          isThinking, generatingForConversationRef, debugInfo, generation,
          stopping, prep, listeners, received,
          intentCache, intentCall, intent>>

storeVars == <<downloadedModels, modelsOnDisk, activeModelId, activeImageModelId>>
llmVars == <<loadedModelPath, visionSupport>>
uiVars == <<isModelLoading, supportsVision, isLoading, isEjecting>>
chatVars == <<activeConversationId, conversations, streamingMessage, isStreaming,
              isThinking, generatingForConversationRef, debugInfo, generation,
              stopping, prep>>
subVars == <<listeners, received>>
intentVars == <<intentCache, intentCall, intent>>

\* callers: the screens' handlers, the intent classifier, and the direct
\* callers of the ActiveModelService API
ApiCallers == {"api"} \X (1..MaxInFlight)

Procs == {<<"chat", 0>>, <<"ensure", 0>>, <<"home", 0>>, <<"eject", 0>>,
          <<"reset", 0>>, <<"classify", 0>>} \cup ApiCallers

\* a caller with no call in progress.  tcall / icall: the call in flight on the
\* text / image engine; path, mm: the arguments of an in-flight load
Idle == [op |-> "none", arg |-> NoModel,
         tcall |-> "none", icall |-> "none", path |-> NoPath, mm |-> NoPath,
         textUnloaded |-> FALSE, imageUnloaded |-> FALSE, rejected |-> FALSE,
         originalModelPath |-> NoPath, needsModelSwap |-> FALSE,
         strategy |-> "performance", response |-> "none"]

\* nothing was returned by the last step
NoAnswer == [op |-> "none", arg |-> NoModel, res |-> "none",
             textUnloaded |-> FALSE, imageUnloaded |-> FALSE]

Answer(op, arg, res) == [NoAnswer EXCEPT !.op = op, !.arg = arg, !.res = res]

\* no raced loadTextModel is the text slot's last request
NoRequest == [who |-> <<"none", 0>>, arg |-> NoModel, status |-> "none"]

InFlight == {p \in Procs : task[p].op # "none"}

\* a new operation may start; API callers take the first free slot
CanStart(p) ==
  /\ task[p].op = "none"
  /\ Cardinality(InFlight) < MaxInFlight
  /\ p \in ApiCallers =>
       \A q \in ApiCallers : q[2] < p[2] => task[q].op # "none"

\* ------------------------------------------------ llmService (the engine)
isModelLoaded == loadedModelPath # NoPath

getLoadedModelPath == loadedModelPath

\* llmService.loadModel(path, mmProjPath) settles: the engine holds the
\* model once the load succeeded; a rejected load changes nothing
llmLoadModel(path, mm, ok) ==
  IF ok
    THEN /\ loadedModelPath' = path
         /\ visionSupport' = (mm # NoPath)
    ELSE UNCHANGED llmVars

\* llmService.unloadModel() settles
llmUnloadModel(ok) ==
  IF ok
    THEN /\ loadedModelPath' = NoPath
         /\ visionSupport' = FALSE
    ELSE UNCHANGED llmVars

\* ------------------------------------------------------ ActiveModelService
\* a lookup that finds every id, downloaded or not
findTextModel_any(modelId) == modelId

\* store.downloadedModels.find(m => m.id === modelId)
findTextModel(modelId) ==
  IF modelId \in downloadedModels THEN modelId ELSE NoModel

\* store.downloadedImageModels.find(m => m.id === modelId)
findImageModel(modelId) ==
  IF modelId \in ImageModelIds THEN modelId ELSE NoModel

getActiveModels ==
  [text |-> [model |-> findTextModel(activeModelId),
             isLoaded |-> isModelLoaded,
             isLoading |-> loadingState.text],
   image |-> [model |-> findImageModel(activeImageModelId),
              isLoaded |-> activeImageModelId # NoModel,
              isLoading |-> loadingState.image]]

\* the listeners of model changes
MaxListeners == 2
Listeners == 1..MaxListeners

NoDelivery ==
  [called |-> FALSE,
   info |-> [text |-> [model |-> NoModel, isLoaded |-> FALSE, isLoading |-> FALSE],
             image |-> [model |-> NoModel, isLoaded |-> FALSE, isLoading |-> FALSE]]]

\* notifyListeners(): when the step called it, every listener in the set is
\* called with getActiveModels() as it is after the step
deliver ==
  /\ listeners' = listeners
  /\ received' =
       IF notified' > 0
         THEN [l \in Listeners |->
                 IF l \in listeners
                   THEN [called |-> TRUE, info |-> getActiveModels']
                   ELSE received[l]]
         ELSE received

\* the service before any subscription
subInit ==
  /\ listeners = {}
  /\ received = [l \in Listeners |-> NoDelivery]

\* subscribe(listener): this.listeners.add(listener)
subscribe(l) ==
  /\ l \notin listeners
  /\ listeners' = listeners \cup {l}
  /\ notified' = 0
  /\ answer' = NoAnswer
  /\ UNCHANGED <<received, storeVars, loadingState, llmVars, uiVars, task,
                 lastIssued, adm, chatVars, intentVars>>

\* the function subscribe returned: this.listeners.delete(listener)
unsubscribe(l) ==
  /\ l \in listeners
  /\ listeners' = listeners \ {l}
  /\ notified' = 0
  /\ answer' = NoAnswer
  /\ UNCHANGED <<received, storeVars, loadingState, llmVars, uiVars, task,
                 lastIssued, adm, chatVars, intentVars>>


\* setters of the per-caller record
Set(p, r) == task' = [task EXCEPT ![p] = r]

Begin(op, arg) == [Idle EXCEPT !.op = op, !.arg = arg]

\* loadTextModel(modelId) up to `await llmService.loadModel(...)`
loadTextModel(p, modelId) ==
  /\ CanStart(p)
  /\ LET model == findTextModel(modelId) IN
     IF model = NoModel
       THEN /\ answer' = Answer("loadTextModel", modelId, "Model not found")
            /\ notified' = 0
            /\ UNCHANGED <<loadingState, task>>
       ELSE /\ loadingState' = [loadingState EXCEPT !.text = TRUE]
            /\ notified' = 1
            /\ Set(p, [Begin("loadTextModel", modelId) EXCEPT
                         !.tcall = "load", !.path = filePath[model],
                         !.mm = mmProjPath[model]])
            /\ answer' = NoAnswer
  /\ UNCHANGED <<storeVars, llmVars, uiVars, adm, chatVars, intentVars>>
  /\ lastIssued' = IF findTextModel(modelId) = NoModel THEN lastIssued
                   ELSE IF \E q \in Procs : task[q].op = "loadTextModel"
                     THEN [who |-> p, arg |-> modelId, status |-> "pending"]
                   ELSE NoRequest
  /\ deliver

\* loadTextModel after the engine call settles: setActiveModelId, finally
loadTextModelSettled(p, ok) ==
  /\ task[p].op = "loadTextModel" /\ task[p].tcall = "load"
  /\ llmLoadModel(task[p].path, task[p].mm, ok)
  /\ activeModelId' = IF ok THEN task[p].arg ELSE activeModelId
  /\ loadingState' = [loadingState EXCEPT !.text = FALSE]
  /\ notified' = 1
  /\ Set(p, Idle)
  /\ answer' = Answer("loadTextModel", task[p].arg,
                      IF ok THEN "ok" ELSE "engine error")
  /\ UNCHANGED <<downloadedModels, modelsOnDisk, activeImageModelId,
                 uiVars, adm, chatVars, intentVars>>
  /\ lastIssued' = IF lastIssued.who = p
                     THEN [lastIssued EXCEPT !.status = IF ok THEN "ok" ELSE "failed"]
                     ELSE lastIssued
  /\ deliver

\* unloadTextModel() up to `await llmService.unloadModel()`
unloadTextModel(p) ==
  /\ CanStart(p)
  /\ loadingState' = [loadingState EXCEPT !.text = TRUE]
  /\ notified' = 1
  /\ Set(p, [Begin("unloadTextModel", NoModel) EXCEPT !.tcall = "unload"])
  /\ answer' = NoAnswer
  /\ UNCHANGED <<storeVars, llmVars, uiVars, adm, chatVars, intentVars>>
  /\ lastIssued' = NoRequest
  /\ deliver

unloadTextModelSettled(p, ok) ==
  /\ task[p].op = "unloadTextModel" /\ task[p].tcall = "unload"
  /\ llmUnloadModel(ok)
  /\ activeModelId' = IF ok THEN NoModel ELSE activeModelId
  /\ loadingState' = [loadingState EXCEPT !.text = FALSE]
  /\ notified' = 1
  /\ Set(p, Idle)
  /\ answer' = Answer("unloadTextModel", NoModel,
                      IF ok THEN "ok" ELSE "engine error")
  /\ UNCHANGED <<downloadedModels, modelsOnDisk, activeImageModelId,
                 uiVars, adm, lastIssued, chatVars, intentVars>>
  /\ deliver

\* loadImageModel(modelId) up to `await onnxImageGeneratorService.loadModel`
loadImageModel(p, modelId) ==
  /\ CanStart(p)
  /\ LET model == findImageModel(modelId) IN
     IF model = NoModel
       THEN /\ answer' = Answer("loadImageModel", modelId, "Model not found")
            /\ notified' = 0
            /\ UNCHANGED <<loadingState, task>>
       ELSE /\ loadingState' = [loadingState EXCEPT !.image = TRUE]
            /\ notified' = 1
            /\ Set(p, [Begin("loadImageModel", modelId) EXCEPT
                         !.icall = "load", !.path = filePath[model]])
            /\ answer' = NoAnswer
  /\ UNCHANGED <<storeVars, llmVars, uiVars, adm, lastIssued,
                 chatVars, intentVars>>
  /\ deliver

loadImageModelSettled(p, ok) ==
  /\ task[p].op = "loadImageModel" /\ task[p].icall = "load"
  /\ activeImageModelId' = IF ok THEN task[p].arg ELSE activeImageModelId
  /\ loadingState' = [loadingState EXCEPT !.image = FALSE]
  /\ notified' = 1
  /\ Set(p, Idle)
  /\ answer' = Answer("loadImageModel", task[p].arg,
                      IF ok THEN "ok" ELSE "engine error")
  /\ UNCHANGED <<downloadedModels, modelsOnDisk, activeModelId, llmVars,
                 uiVars, adm, lastIssued, chatVars, intentVars>>
  /\ deliver

\* unloadImageModel() up to `await onnxImageGeneratorService.unloadModel()`
unloadImageModel(p) ==
  /\ CanStart(p)
  /\ loadingState' = [loadingState EXCEPT !.image = TRUE]
  /\ notified' = 1
  /\ Set(p, [Begin("unloadImageModel", NoModel) EXCEPT !.icall = "unload"])
  /\ answer' = NoAnswer
  /\ UNCHANGED <<storeVars, llmVars, uiVars, adm, lastIssued,
                 chatVars, intentVars>>
  /\ deliver

unloadImageModelSettled(p, ok) ==
  /\ task[p].op = "unloadImageModel" /\ task[p].icall = "unload"
  /\ activeImageModelId' = IF ok THEN NoModel ELSE activeImageModelId
  /\ loadingState' = [loadingState EXCEPT !.image = FALSE]
  /\ notified' = 1
  /\ Set(p, Idle)
  /\ answer' = Answer("unloadImageModel", NoModel,
                      IF ok THEN "ok" ELSE "engine error")
  /\ UNCHANGED <<downloadedModels, modelsOnDisk, activeModelId, llmVars,
                 uiVars, adm, lastIssued, chatVars, intentVars>>
  /\ deliver

\* unloadAllModels() as called by HomeScreen.handleEjectAll: the synchronous
\* parts of unloadTextModel / unloadImageModel for the slots reported loaded.
\* (refreshResourceUsage only reads the hardware and is not a step of its own.)
handleEjectAll ==
  LET p == <<"eject", 0>>
      info == getActiveModels
      t == info.text.isLoaded
      i == info.image.isLoaded
  IN
  /\ CanStart(p)
  /\ ~isEjecting
  /\ activeModelId # NoModel \/ activeImageModelId # NoModel
  /\ loadingState' = [text |-> loadingState.text \/ t,
                      image |-> loadingState.image \/ i]
  /\ notified' = (IF t THEN 1 ELSE 0) + (IF i THEN 1 ELSE 0)
  /\ IF t \/ i
       THEN /\ Set(p, [Begin("unloadAllModels", NoModel) EXCEPT
                         !.tcall = IF t THEN "unload" ELSE "none",
                         !.icall = IF i THEN "unload" ELSE "none"])
            /\ answer' = NoAnswer
       ELSE /\ answer' = Answer("unloadAllModels", NoModel, "ok")
            /\ UNCHANGED task
  /\ isEjecting' = (t \/ i)
  /\ UNCHANGED <<storeVars, llmVars, isModelLoading,
                 supportsVision, isLoading, adm, chatVars, intentVars>>
  /\ lastIssued' = IF getActiveModels.text.isLoaded THEN NoRequest ELSE lastIssued
  /\ deliver

\* unloadAllModels after one of its unloads settled (r: the caller's record
\* after it).  Promise.all rejects with the first failure and resolves,
\* with the results object, once nothing is pending; handleEjectAll's
\* finally then clears isEjecting.
unloadAllContinue(p, r, ok) ==
  LET pending == r.tcall # "none" \/ r.icall # "none"
      rejects == ~ok /\ ~r.rejected
      resolves == ok /\ ~r.rejected /\ ~pending
  IN
  /\ Set(p, IF pending THEN [r EXCEPT !.rejected = r.rejected \/ ~ok] ELSE Idle)
  /\ answer' = IF rejects THEN Answer("unloadAllModels", NoModel, "engine error")
               ELSE IF resolves
                 THEN [Answer("unloadAllModels", NoModel, "ok") EXCEPT
                         !.textUnloaded = r.textUnloaded,
                         !.imageUnloaded = r.imageUnloaded]
               ELSE NoAnswer
  /\ isEjecting' = IF rejects \/ resolves THEN FALSE ELSE isEjecting

\* unloadAllModels: its unloadTextModel() settles
unloadAllTextSettled(ok) ==
  LET p == <<"eject", 0>> IN
  /\ task[p].op = "unloadAllModels" /\ task[p].tcall = "unload"
  /\ llmUnloadModel(ok)
  /\ activeModelId' = IF ok THEN NoModel ELSE activeModelId
  /\ loadingState' = [loadingState EXCEPT !.text = FALSE]
  /\ notified' = 1
  /\ unloadAllContinue(p, [task[p] EXCEPT !.tcall = "none", !.textUnloaded = ok], ok)
  /\ UNCHANGED <<downloadedModels, modelsOnDisk, activeImageModelId,
                 isModelLoading, supportsVision, isLoading, adm, lastIssued,
                 chatVars, intentVars>>
  /\ deliver

\* unloadAllModels: its unloadImageModel() settles
unloadAllImageSettled(ok) ==
  LET p == <<"eject", 0>> IN
  /\ task[p].op = "unloadAllModels" /\ task[p].icall = "unload"
  /\ activeImageModelId' = IF ok THEN NoModel ELSE activeImageModelId
  /\ loadingState' = [loadingState EXCEPT !.image = FALSE]
  /\ notified' = 1
  /\ unloadAllContinue(p, [task[p] EXCEPT !.icall = "none", !.imageUnloaded = ok], ok)
  /\ UNCHANGED <<downloadedModels, modelsOnDisk, activeModelId, llmVars,
                 isModelLoading, supportsVision, isLoading, adm, lastIssued,
                 chatVars, intentVars>>
  /\ deliver

\* ------------------------------------------------------------ HomeScreen
\* the picker's buttons are disabled while isLoading; errors are caught and
\* shown in an alert
handleSelectTextModel(model) ==
  LET p == <<"home", 0>> IN
  /\ CanStart(p) /\ ~isLoading
  /\ model \in downloadedModels
  /\ IF activeModelId = model
       THEN /\ answer' = NoAnswer
            /\ UNCHANGED <<isLoading, task>>
       ELSE /\ Set(p, [Begin("handleSelectTextModel", model) EXCEPT
                         !.tcall = "load", !.path = filePath[model]])
            /\ isLoading' = TRUE
            /\ answer' = NoAnswer
  /\ notified' = 0
  /\ UNCHANGED <<storeVars, loadingState, llmVars,
                 isModelLoading, supportsVision, isEjecting, adm,
                 chatVars, intentVars>>
  /\ lastIssued' = IF activeModelId = model THEN lastIssued ELSE NoRequest
  /\ deliver

handleSelectTextModelSettled(ok) ==
  LET p == <<"home", 0>> IN
  /\ task[p].op = "handleSelectTextModel" /\ task[p].tcall = "load"
  /\ llmLoadModel(task[p].path, NoPath, ok)
  /\ activeModelId' = IF ok THEN task[p].arg ELSE activeModelId
  /\ isLoading' = FALSE
  /\ Set(p, Idle)
  /\ answer' = IF ok THEN NoAnswer
               ELSE Answer("handleSelectTextModel", task[p].arg, "alert")
  /\ notified' = 0
  /\ UNCHANGED <<downloadedModels, modelsOnDisk, activeImageModelId,
                 loadingState, isModelLoading, supportsVision,
                 isEjecting, adm, lastIssued, chatVars, intentVars>>
  /\ deliver

\* the unload button is rendered only when activeModelId is set
handleUnloadTextModel ==
  LET p == <<"home", 0>> IN
  /\ CanStart(p) /\ ~isLoading
  /\ activeModelId # NoModel
  /\ Set(p, [Begin("handleUnloadTextModel", NoModel) EXCEPT !.tcall = "unload"])
  /\ isLoading' = TRUE
  /\ answer' = NoAnswer
  /\ notified' = 0
  /\ UNCHANGED <<storeVars, loadingState, llmVars,
                 isModelLoading, supportsVision, isEjecting, adm,
                 chatVars, intentVars>>
  /\ lastIssued' = NoRequest
  /\ deliver

handleUnloadTextModelSettled(ok) ==
  LET p == <<"home", 0>> IN
  /\ task[p].op = "handleUnloadTextModel" /\ task[p].tcall = "unload"
  /\ llmUnloadModel(ok)
  /\ activeModelId' = IF ok THEN NoModel ELSE activeModelId
  /\ isLoading' = FALSE
  /\ Set(p, Idle)
  /\ answer' = IF ok THEN NoAnswer
               ELSE Answer("handleUnloadTextModel", NoModel, "alert")
  /\ notified' = 0
  /\ UNCHANGED <<downloadedModels, modelsOnDisk, activeImageModelId,
                 loadingState, isModelLoading, supportsVision,
                 isEjecting, adm, lastIssued, chatVars, intentVars>>
  /\ deliver

handleSelectImageModel(model) ==
  LET p == <<"home", 0>> IN
  /\ CanStart(p) /\ ~isLoading
  /\ model \in ImageModelIds
  /\ IF activeImageModelId = model
       THEN /\ answer' = NoAnswer
            /\ UNCHANGED <<isLoading, task>>
       ELSE /\ Set(p, [Begin("handleSelectImageModel", model) EXCEPT
                         !.icall = "load", !.path = filePath[model]])
            /\ isLoading' = TRUE
            /\ answer' = NoAnswer
  /\ notified' = 0
  /\ UNCHANGED <<storeVars, loadingState, llmVars,
                 isModelLoading, supportsVision, isEjecting, adm, lastIssued,
                 chatVars, intentVars>>
  /\ deliver

handleSelectImageModelSettled(ok) ==
  LET p == <<"home", 0>> IN
  /\ task[p].op = "handleSelectImageModel" /\ task[p].icall = "load"
  /\ activeImageModelId' = IF ok THEN task[p].arg ELSE activeImageModelId
  /\ isLoading' = FALSE
  /\ Set(p, Idle)
  /\ answer' = IF ok THEN NoAnswer
               ELSE Answer("handleSelectImageModel", task[p].arg, "alert")
  /\ notified' = 0
  /\ UNCHANGED <<downloadedModels, modelsOnDisk, activeModelId, loadingState,
                 llmVars, isModelLoading, supportsVision, isEjecting, adm, lastIssued,
                 chatVars, intentVars>>
  /\ deliver

handleUnloadImageModel ==
  LET p == <<"home", 0>> IN
  /\ CanStart(p) /\ ~isLoading
  /\ activeImageModelId # NoModel
  /\ Set(p, [Begin("handleUnloadImageModel", NoModel) EXCEPT !.icall = "unload"])
  /\ isLoading' = TRUE
  /\ answer' = NoAnswer
  /\ notified' = 0
  /\ UNCHANGED <<storeVars, loadingState, llmVars,
                 isModelLoading, supportsVision, isEjecting, adm, lastIssued,
                 chatVars, intentVars>>
  /\ deliver

handleUnloadImageModelSettled(ok) ==
  LET p == <<"home", 0>> IN
  /\ task[p].op = "handleUnloadImageModel" /\ task[p].icall = "unload"
  /\ activeImageModelId' = IF ok THEN NoModel ELSE activeImageModelId
  /\ isLoading' = FALSE
  /\ Set(p, Idle)
  /\ answer' = IF ok THEN NoAnswer
               ELSE Answer("handleUnloadImageModel", NoModel, "alert")
  /\ notified' = 0
  /\ UNCHANGED <<downloadedModels, modelsOnDisk, activeModelId, loadingState,
                 llmVars, isModelLoading, supportsVision, isEjecting, adm, lastIssued,
                 chatVars, intentVars>>
  /\ deliver

\* loadData(): the store's list is refreshed from storage
loadData ==
  /\ downloadedModels # modelsOnDisk
  /\ downloadedModels' = modelsOnDisk
  /\ notified' = 0
  /\ answer' = NoAnswer
  /\ UNCHANGED <<modelsOnDisk, activeModelId, activeImageModelId, loadingState,
                 llmVars, uiVars, task, adm, lastIssued, chatVars, intentVars>>
  /\ deliver

\* -------------------------------------------------------- SettingsScreen
\* handleResetApp up to `await llmService.unloadModel()`
handleResetApp ==
  LET p == <<"reset", 0>> IN
  /\ CanStart(p)
  /\ Set(p, [Begin("handleResetApp", NoModel) EXCEPT !.tcall = "unload"])
  /\ answer' = NoAnswer
  /\ notified' = 0
  /\ UNCHANGED <<storeVars, loadingState, llmVars, uiVars, adm,
                 chatVars, intentVars>>
  /\ lastIssued' = NoRequest
  /\ deliver

\* ... then modelManager.deleteModel for every model of the store's list
handleResetAppSettled(ok) ==
  LET p == <<"reset", 0>> IN
  /\ task[p].op = "handleResetApp" /\ task[p].tcall = "unload"
  /\ llmUnloadModel(ok)
  /\ modelsOnDisk' = IF ok THEN modelsOnDisk \ downloadedModels ELSE modelsOnDisk
  /\ Set(p, Idle)
  /\ answer' = IF ok THEN NoAnswer
               ELSE Answer("handleResetApp", NoModel, "alert")
  /\ notified' = 0
  /\ UNCHANGED <<downloadedModels, activeModelId, activeImageModelId,
                 loadingState, uiVars, adm, lastIssued, chatVars, intentVars>>
  /\ deliver

\* ------------------------------------------------------------ ChatScreen
\* While isModelLoading the screen shows only its loading view, so the
\* selector's handlers cannot start.
handleModelSelect(model) ==
  LET p == <<"chat", 0>> IN
  /\ CanStart(p) /\ ~isModelLoading
  /\ model \in downloadedModels
  /\ IF getLoadedModelPath = filePath[model]
       THEN /\ answer' = NoAnswer
            /\ UNCHANGED <<isModelLoading, task>>
       ELSE /\ Set(p, [Begin("handleModelSelect", model) EXCEPT
                         !.tcall = "load", !.path = filePath[model],
                         !.mm = mmProjPath[model]])
            /\ isModelLoading' = TRUE
            /\ answer' = NoAnswer
  /\ notified' = 0
  /\ UNCHANGED <<storeVars, loadingState, llmVars,
                 supportsVision, isLoading, isEjecting, adm,
                 chatVars, intentVars>>
  /\ lastIssued' = IF getLoadedModelPath = filePath[model] THEN lastIssued ELSE NoRequest
  /\ deliver

handleModelSelectSettled(ok) ==
  LET p == <<"chat", 0>> IN
  /\ task[p].op = "handleModelSelect" /\ task[p].tcall = "load"
  /\ llmLoadModel(task[p].path, task[p].mm, ok)
  /\ activeModelId' = IF ok THEN task[p].arg ELSE activeModelId
  /\ supportsVision' = IF ok THEN visionSupport' ELSE supportsVision
  /\ isModelLoading' = FALSE
  /\ Set(p, Idle)
  /\ answer' = IF ok THEN NoAnswer
               ELSE Answer("handleModelSelect", task[p].arg, "alert")
  /\ notified' = 0
  /\ UNCHANGED <<downloadedModels, modelsOnDisk, activeImageModelId,
                 loadingState, isLoading, isEjecting, adm, lastIssued,
                 chatVars, intentVars>>
  /\ deliver

\* the unload button is rendered only when currentModelPath is not null;
\* while isStreaming the handler first awaits stopGeneration
handleUnloadModel ==
  LET p == <<"chat", 0>> IN
  /\ CanStart(p) /\ ~isModelLoading
  /\ getLoadedModelPath # NoPath
  /\ IF isStreaming
       THEN /\ Set(p, [Begin("handleUnloadModel", NoModel) EXCEPT !.tcall = "stop"])
            /\ generation' = [g \in DOMAIN generation |->
                                IF generation[g].status = "running"
                                  THEN [generation[g] EXCEPT !.stopRequested = TRUE]
                                  ELSE generation[g]]
            /\ UNCHANGED isModelLoading
       ELSE /\ Set(p, [Begin("handleUnloadModel", NoModel) EXCEPT !.tcall = "unload"])
            /\ isModelLoading' = TRUE
            /\ UNCHANGED generation
  /\ answer' = NoAnswer
  /\ notified' = 0
  /\ UNCHANGED <<storeVars, loadingState, llmVars,
                 supportsVision, isLoading, isEjecting, adm,
                 activeConversationId, conversations, streamingMessage,
                 isStreaming, isThinking, generatingForConversationRef,
                 debugInfo, stopping, prep, intentVars>>
  /\ lastIssued' = NoRequest
  /\ deliver

\* stopGeneration settles: clearStreamingMessage, setIsModelLoading(true) and
\* the call of unloadModel
handleUnloadModelStopped ==
  LET p == <<"chat", 0>> IN
  /\ task[p].op = "handleUnloadModel" /\ task[p].tcall = "stop"
  /\ Set(p, [task[p] EXCEPT !.tcall = "unload"])
  /\ generation' = [g \in DOMAIN generation |->
                      IF generation[g].status = "running"
                        THEN [generation[g] EXCEPT !.status = "stopped"]
                        ELSE generation[g]]
  /\ streamingMessage' = <<>>
  /\ isStreaming' = FALSE
  /\ isThinking' = FALSE
  /\ isModelLoading' = TRUE
  /\ answer' = NoAnswer
  /\ notified' = 0
  /\ UNCHANGED <<storeVars, loadingState, llmVars,
                 supportsVision, isLoading, isEjecting, adm, lastIssued,
                 activeConversationId, conversations,
                 generatingForConversationRef, debugInfo, stopping, prep,
                 intentVars>>
  /\ deliver

handleUnloadModelSettled(ok) ==
  LET p == <<"chat", 0>> IN
  /\ task[p].op = "handleUnloadModel" /\ task[p].tcall = "unload"
  /\ llmUnloadModel(ok)
  /\ supportsVision' = IF ok THEN FALSE ELSE supportsVision
  /\ isModelLoading' = FALSE
  /\ Set(p, Idle)
  /\ answer' = IF ok THEN NoAnswer
               ELSE Answer("handleUnloadModel", NoModel, "alert")
  /\ notified' = 0
  /\ UNCHANGED <<storeVars, loadingState, isLoading,
                 isEjecting, adm, lastIssued, chatVars, intentVars>>
  /\ deliver

\* needsReload of ensureModelLoaded
needsReload(model) ==
  \/ getLoadedModelPath # filePath[model]
  \/ mmProjPath[model] # NoPath /\ ~visionSupport

\* ensureModelLoaded(), run by the effect on activeModelId and by handleSend,
\* up to its first await
ensureModelLoaded ==
  LET p == <<"ensure", 0>>
      activeModel == findTextModel(activeModelId)
  IN
  /\ CanStart(p)
  /\ activeModel # NoModel
  /\ IF ~needsReload(activeModel)
       THEN /\ supportsVision' = visionSupport
            /\ answer' = NoAnswer
            /\ UNCHANGED <<isModelLoading, task>>
       ELSE /\ isModelLoading' = TRUE
            /\ answer' = NoAnswer
            /\ UNCHANGED supportsVision
            /\ IF getLoadedModelPath = filePath[activeModel]
                    /\ mmProjPath[activeModel] # NoPath
                 THEN Set(p, [Begin("ensureModelLoaded", activeModel) EXCEPT
                                !.tcall = "unload"])
                 ELSE Set(p, [Begin("ensureModelLoaded", activeModel) EXCEPT
                                !.tcall = "load", !.path = filePath[activeModel],
                                !.mm = mmProjPath[activeModel]])
  /\ notified' = 0
  /\ UNCHANGED <<storeVars, loadingState, llmVars,
                 isLoading, isEjecting, adm, chatVars, intentVars>>
  /\ lastIssued' = IF needsReload(findTextModel(activeModelId)) THEN NoRequest ELSE lastIssued
  /\ deliver

\* ensureModelLoaded: the forced unload before an mmproj reload settles
ensureModelLoadedUnloaded(ok) ==
  LET p == <<"ensure", 0>>
      model == task[p].arg
  IN
  /\ task[p].op = "ensureModelLoaded" /\ task[p].tcall = "unload"
  /\ llmUnloadModel(ok)
  /\ IF ok
       THEN /\ Set(p, [task[p] EXCEPT !.tcall = "load",
                                      !.path = filePath[model],
                                      !.mm = mmProjPath[model]])
            /\ answer' = NoAnswer
            /\ UNCHANGED isModelLoading
       ELSE /\ Set(p, Idle)
            /\ answer' = Answer("ensureModelLoaded", model, "alert")
            /\ isModelLoading' = FALSE
  /\ notified' = 0
  /\ UNCHANGED <<storeVars, loadingState, supportsVision,
                 isLoading, isEjecting, adm, chatVars, intentVars>>
  /\ lastIssued' = IF ok THEN NoRequest ELSE lastIssued
  /\ deliver

\* ensureModelLoaded: its load settles
ensureModelLoadedSettled(ok) ==
  LET p == <<"ensure", 0>> IN
  /\ task[p].op = "ensureModelLoaded" /\ task[p].tcall = "load"
  /\ llmLoadModel(task[p].path, task[p].mm, ok)
  /\ supportsVision' = IF ok THEN visionSupport' ELSE supportsVision
  /\ isModelLoading' = FALSE
  /\ Set(p, Idle)
  /\ answer' = IF ok THEN NoAnswer
               ELSE Answer("ensureModelLoaded", task[p].arg, "alert")
  /\ notified' = 0
  /\ UNCHANGED <<storeVars, loadingState, isLoading,
                 isEjecting, adm, lastIssued, chatVars, intentVars>>
  /\ deliver

\* ------------------------------------------------------ IntentClassifier
Strategies == {"performance", "memory", "undefined"}

\* a default that keeps the classifier model loaded
strategyOf_memoryDefault(s) == IF s = "undefined" THEN "memory" ELSE s

\* opts.modelLoadingStrategy ?? 'performance'
strategyOf(s) == IF s = "undefined" THEN "performance" ELSE s

\* a message as classifyIntent sees it after trim().toLowerCase(): whether
\* some IMAGE_PATTERNS / TEXT_PATTERNS regex matches it, its length, and its
\* runs of sentence terminators (the matches of /[.!?]+/g), each by length
NoMessage == [id |-> 0, image |-> FALSE, text |-> FALSE, length |-> 0,
              runs |-> <<>>]

Intents == {"image", "text"}

CACHE_MAX_SIZE == 100

\* Math.floor(CACHE_MAX_SIZE * 0.2)
keysToRemove == (CACHE_MAX_SIZE * 2) \div 10

NoIntentCall == [active |-> FALSE, key |-> NoMessage]

NoIntent == [op |-> "none", key |-> NoMessage, result |-> "none"]

intentInit ==
  /\ intentCache = <<>>
  /\ intentCall = NoIntentCall
  /\ intent = NoIntent

\* (message.match(/[.!?]+/g) || []).length
sentenceCount(message) == Len(message.runs)

\* a classification that tries the text patterns first
classifyByPattern_textFirst(message) ==
  IF message.text THEN "text"
  ELSE IF message.image THEN "image"
  ELSE IF message.length < 10 THEN "text"
  ELSE IF sentenceCount(message) >= 2 /\ message.length > 100 THEN "text"
  ELSE "null"

classifyByPattern(message) ==
  IF message.image THEN "image"
  ELSE IF message.text THEN "text"
  ELSE IF message.length < 10 THEN "text"
  ELSE IF sentenceCount(message) >= 2 /\ message.length > 100 THEN "text"
  ELSE "null"

\* trimmedMessage.slice(0, 200): the messages here have at most 200
\* characters, so the key is the whole trimmed message
cacheKey(message) == message

\* intentCache.get(key)
cacheGet(key) ==
  IF \E i \in 1..Len(intentCache) : intentCache[i].key = key
    THEN (CHOOSE e \in {intentCache[i] : i \in 1..Len(intentCache)} :
            e.key = key).intent
    ELSE "null"

\* a cache that drops nothing when it is full
cacheIntent_noEviction(cache, key, value) ==
  IF \E i \in 1..Len(cache) : cache[i].key = key
    THEN [i \in 1..Len(cache) |->
            IF cache[i].key = key THEN [key |-> key, intent |-> value]
            ELSE cache[i]]
    ELSE Append(cache, [key |-> key, intent |-> value])

\* cacheIntent: at the limit the first keysToRemove keys in insertion order
\* are deleted; Map.set keeps the place of a key that is present
cacheIntent(cache, key, value) ==
  LET kept == IF Len(cache) >= CACHE_MAX_SIZE
                THEN SubSeq(cache, keysToRemove + 1, Len(cache))
                ELSE cache
  IN IF \E i \in 1..Len(kept) : kept[i].key = key
       THEN [i \in 1..Len(kept) |->
               IF kept[i].key = key THEN [key |-> key, intent |-> value]
               ELSE kept[i]]
       ELSE Append(kept, [key |-> key, intent |-> value])

\* a continuation that lets the exception of classifyWithLLM escape
classified_rethrow ==
  IF intentCall.active /\ answer'.op = "classifyWithLLM"
    THEN /\ intentCall' = NoIntentCall
         /\ intentCache' = intentCache
         /\ intent' = [op |-> "classifyIntent", key |-> intentCall.key,
                       result |-> IF answer'.res \in Intents THEN answer'.res
                                  ELSE "throws"]
    ELSE UNCHANGED intentVars

\* a continuation that caches the default it returns after a failure
classified_cachesDefault ==
  IF intentCall.active /\ answer'.op = "classifyWithLLM"
    THEN LET r == IF answer'.res \in Intents THEN answer'.res ELSE "text" IN
         /\ intentCall' = NoIntentCall
         /\ intentCache' = cacheIntent(intentCache, intentCall.key, r)
         /\ intent' = [op |-> "classifyIntent", key |-> intentCall.key,
                       result |-> r]
    ELSE UNCHANGED intentVars

\* classifyIntent after its await of classifyWithLLM, in the step where
\* classifyWithLLM returns or throws: a result is cached and returned, an
\* exception is caught and 'text' returned
classified ==
  IF intentCall.active /\ answer'.op = "classifyWithLLM"
    THEN /\ intentCall' = NoIntentCall
         /\ IF answer'.res \in Intents
              THEN /\ intentCache' = cacheIntent(intentCache, intentCall.key,
                                                 answer'.res)
                   /\ intent' = [op |-> "classifyIntent",
                                 key |-> intentCall.key,
                                 result |-> answer'.res]
              ELSE /\ intentCache' = intentCache
                   /\ intent' = [op |-> "classifyIntent",
                                 key |-> intentCall.key, result |-> "text"]
    ELSE UNCHANGED intentVars

\* classifyWithLLM up to its first await: the swap to the classifier model,
\* or the generation on the model already loaded
classifyWithLLMBegin(classifierModel, s) ==
  LET p == <<"classify", 0>>
      currentPath == getLoadedModelPath
      r == [Begin("classifyWithLLM", classifierModel) EXCEPT !.strategy = s]
  IN
  /\ CanStart(p)
  /\ IF classifierModel # NoModel /\ currentPath # filePath[classifierModel]
       THEN /\ Set(p, [r EXCEPT !.needsModelSwap = TRUE,
                                !.originalModelPath = currentPath,
                                !.tcall = "load",
                                !.path = filePath[classifierModel]])
            /\ answer' = NoAnswer
       ELSE IF ~isModelLoaded
         THEN /\ answer' = Answer("classifyWithLLM", classifierModel,
                                  "No model loaded for classification")
              /\ UNCHANGED task
         ELSE /\ Set(p, [r EXCEPT !.tcall = "generate"])
              /\ answer' = NoAnswer
  /\ notified' = 0
  /\ UNCHANGED <<storeVars, loadingState, llmVars, uiVars, adm, chatVars>>
  /\ lastIssued' = IF classifierModel # NoModel
                      /\ getLoadedModelPath # filePath[classifierModel]
                     THEN NoRequest ELSE lastIssued
  /\ deliver

\* classifyWithLLM: the load of the classifier model settles
classifySwapSettled(ok) ==
  LET p == <<"classify", 0>> IN
  /\ task[p].op = "classifyWithLLM" /\ task[p].tcall = "load"
  /\ task[p].response = "none"
  /\ llmLoadModel(task[p].path, NoPath, ok)
  /\ IF ~ok
       THEN /\ Set(p, Idle)
            /\ answer' = Answer("classifyWithLLM", task[p].arg, "engine error")
       ELSE IF loadedModelPath' = NoPath
         THEN /\ Set(p, Idle)
              /\ answer' = Answer("classifyWithLLM", task[p].arg,
                                  "No model loaded for classification")
         ELSE /\ Set(p, [task[p] EXCEPT !.tcall = "generate"])
              /\ answer' = NoAnswer
  /\ notified' = 0
  /\ UNCHANGED <<storeVars, loadingState, uiVars, adm, lastIssued, chatVars>>
  /\ deliver
  /\ classified

\* classifyWithLLM: generateResponse settles (response: what the model said,
\* or that the call rejected); the finally block decides on the swap back
classifyGenerateSettled(response) ==
  LET p == <<"classify", 0>>
      r == task[p]
      res == IF response = "generate error" THEN response
             ELSE IF response = "yes" THEN "image" ELSE "text"
  IN
  /\ r.op = "classifyWithLLM" /\ r.tcall = "generate"
  /\ IF r.needsModelSwap /\ r.originalModelPath # NoPath
          /\ strategyOf(r.strategy) = "performance"
       THEN /\ Set(p, [r EXCEPT !.tcall = "load", !.path = r.originalModelPath,
                                !.response = res])
            /\ answer' = NoAnswer
       ELSE /\ Set(p, Idle)
            /\ answer' = Answer("classifyWithLLM", r.arg, res)
  /\ notified' = 0
  /\ UNCHANGED <<storeVars, loadingState, llmVars, uiVars, adm, chatVars>>
  /\ lastIssued' = IF task[<<"classify", 0>>].needsModelSwap
                      /\ task[<<"classify", 0>>].originalModelPath # NoPath
                      /\ strategyOf(task[<<"classify", 0>>].strategy) = "performance"
                     THEN NoRequest ELSE lastIssued
  /\ deliver
  /\ classified

\* classifyWithLLM: the load that restores the original model settles
classifyRestoreSettled(ok) ==
  LET p == <<"classify", 0>> IN
  /\ task[p].op = "classifyWithLLM" /\ task[p].tcall = "load"
  /\ task[p].response # "none"
  /\ llmLoadModel(task[p].path, NoPath, ok)
  /\ Set(p, Idle)
  /\ answer' = Answer("classifyWithLLM", task[p].arg,
                      IF ok THEN task[p].response ELSE "engine error")
  /\ notified' = 0
  /\ UNCHANGED <<storeVars, loadingState, uiVars, adm, lastIssued, chatVars>>
  /\ deliver
  /\ classified


\* classifyWithLLM for a message that is not followed further
classifyWithLLM(classifierModel, s) ==
  /\ classifyWithLLMBegin(classifierModel, s)
  /\ UNCHANGED intentVars

\* classifyIntent(message, options) up to its return or its await of
\* classifyWithLLM: the cache, the patterns, then the LLM when enabled
classifyIntent(message, useLLM, classifierModel, s) ==
  LET cacheKeyOf == cacheKey(message)
      cachedIntent == cacheGet(cacheKeyOf)
      patternResult == classifyByPattern(message)
      returns(r) == intent' = [op |-> "classifyIntent", key |-> cacheKeyOf,
                               result |-> r]
      noLLM == UNCHANGED <<storeVars, loadingState, notified, llmVars, uiVars,
                           task, answer, lastIssued, adm, chatVars, subVars>>
  IN
  IF cachedIntent # "null"
    THEN returns(cachedIntent) /\ UNCHANGED <<intentCache, intentCall>> /\ noLLM
  ELSE IF patternResult # "null"
    THEN /\ intentCache' = cacheIntent(intentCache, cacheKeyOf, patternResult)
         /\ returns(patternResult)
         /\ UNCHANGED intentCall
         /\ noLLM
  ELSE IF useLLM
    THEN /\ ~intentCall.active
         /\ classifyWithLLMBegin(classifierModel, s)
         /\ IF answer'.op = "classifyWithLLM"
              THEN returns("text") /\ UNCHANGED <<intentCache, intentCall>>
              ELSE /\ intentCall' = [active |-> TRUE, key |-> cacheKeyOf]
                   /\ intent' = NoIntent
                   /\ UNCHANGED intentCache
  ELSE returns("text") /\ UNCHANGED <<intentCache, intentCall>> /\ noLLM

\* quickCheck(message): the patterns only
quickCheck(message) ==
  LET patternResult == classifyByPattern(message) IN
  /\ intent' = [op |-> "quickCheck", key |-> message,
                result |-> IF patternResult = "null" THEN "text"
                           ELSE patternResult]
  /\ UNCHANGED <<intentCache, intentCall, storeVars, loadingState, notified,
                 llmVars, uiVars, task, answer, lastIssued, adm, chatVars,
                 subVars>>

\* clearCache()
clearCache ==
  /\ intentCache' = <<>>
  /\ UNCHANGED <<intentCall, intent, storeVars, loadingState, notified,
                 llmVars, uiVars, task, answer, lastIssued, adm, chatVars,
                 subVars>>

\* ------------------------------------------------------ memory budget
\* README, Memory Management.  Sizes are whole units, so the products below
\* are exact; 0.60 and 0.50 of the total are compared as 5p > 3t and 2p > t,
\* which is what the floating-point comparison gives for these sizes.

\* text: file size x 1.5, plus the mmproj file for a vision model;
\* image: file size x 1.8
estimateModelMemory(model, modelType) ==
  IF modelType = "text"
    THEN (fileSize[model] * 15) \div 10 + mmProjSize[model]
    ELSE (fileSize[model] * 18) \div 10

\* the estimates of the models that are loaded now
getCurrentlyLoadedMemory ==
  (IF isModelLoaded /\ activeModelId # NoModel
     THEN estimateModelMemory(activeModelId, "text") ELSE 0)
  + (IF activeImageModelId # NoModel
       THEN estimateModelMemory(activeImageModelId, "image") ELSE 0)

\* a budget check that also blocks at exactly 60%
exceedsBudget_ge(totalRequired, total) == 5 * totalRequired >= 3 * total

\* totalRequired > budget, budget = total * 0.60
exceedsBudget(totalRequired, total) == 5 * totalRequired > 3 * total

\* "Warns at 50% usage"
exceedsWarning(totalRequired, total) == 2 * totalRequired > total

\* the three-way decision of the pre-load check
checkAdmission(estimate, resident, total) ==
  LET totalRequired == estimate + resident IN
  IF exceedsBudget(totalRequired, total) THEN "Block"
  ELSE IF exceedsWarning(totalRequired, total) THEN "Warn"
  ELSE "Admit"

\* checkMemoryForModel(modelId, modelType)
checkMemoryForModel(modelId, modelType) ==
  checkAdmission(estimateModelMemory(modelId, modelType),
                 getCurrentlyLoadedMemory, totalMemory)

\* one run of the decision on the inputs held in adm
checkMemory ==
  /\ adm.result = "none"
  /\ adm' = [adm EXCEPT !.result = checkAdmission(adm.estimate, adm.resident, adm.total)]
  /\ UNCHANGED <<subVars, intentVars, storeVars, loadingState, notified, llmVars, uiVars, task,
                 answer, lastIssued, chatVars, intentVars>>


\* --------------------------------------------------- context preparation
\* llmService.getContextDebugInfo(messagesForContext): the messages that fit
\* the context length.  A message is [id, tokens], tokens its estimate.
NoDebugInfo == [originalMessageCount |-> 0, managedMessageCount |-> 0,
                truncatedCount |-> 0, estimatedTokens |-> 0,
                maxContextLength |-> 0, contextUsagePercent |-> 0,
                messages |-> <<>>]

\* a context that leaves out the message being sent
messagesForContext_noUser(systemPrompt, conversationMessages, userMessage) ==
  <<systemPrompt>> \o conversationMessages

\* a context with the message being sent ahead of the history
messagesForContext_userFirst(systemPrompt, conversationMessages, userMessage) ==
  <<systemPrompt, userMessage>> \o conversationMessages

\* handleSend: [system, ...conversationMessages, userMessage]
messagesForContext(systemPrompt, conversationMessages, userMessage) ==
  <<systemPrompt>> \o conversationMessages \o <<userMessage>>

RECURSIVE estimateTokens(_)
estimateTokens(messages) ==
  IF messages = <<>> THEN 0
  ELSE Head(messages).tokens + estimateTokens(Tail(messages))

\* drop the oldest message after the system message, one at a time, until
\* the estimate fits or only the system message and the newest are left
RECURSIVE truncateOldest(_, _, _)
truncateOldest(messages, maxContextTokens, dropped) ==
  IF estimateTokens(messages) <= maxContextTokens \/ Len(messages) <= 2
    THEN [messages |-> messages, truncatedCount |-> dropped]
    ELSE truncateOldest(<<messages[1]>> \o SubSeq(messages, 3, Len(messages)),
                        maxContextTokens, dropped + 1)

getContextDebugInfo(messages, maxContextTokens) ==
  LET managed == truncateOldest(messages, maxContextTokens, 0)
      estimated == estimateTokens(managed.messages)
  IN [originalMessageCount |-> Len(messages),
      managedMessageCount |-> Len(managed.messages),
      truncatedCount |-> managed.truncatedCount,
      estimatedTokens |-> estimated,
      maxContextLength |-> maxContextTokens,
      contextUsagePercent |-> (estimated * 100) \div maxContextTokens,
      messages |-> managed.messages]

prepare(systemPrompt, history, newMessage, maxContextTokens) ==
  getContextDebugInfo(messagesForContext(systemPrompt, history, newMessage),
                      maxContextTokens)

\* the inputs of a preparation: a system message, a history of at most
\* MaxHistory messages in order, the new message, the context length
HistoriesOf(n) ==
  {[i \in 1..n |-> [id |-> i, tokens |-> t[i]]] : t \in [1..n -> 1..MaxMessageTokens]}

PrepareInputs ==
  UNION {[systemPrompt : {[id |-> 0, tokens |-> t] : t \in 1..MaxMessageTokens},
          history : HistoriesOf(n),
          newMessage : {[id |-> n + 1, tokens |-> t] : t \in 1..MaxMessageTokens},
          maxContextTokens : 1..MaxContext] : n \in 0..MaxHistory}

NoPrepare == [systemPrompt |-> [id |-> 0, tokens |-> 1], history |-> <<>>,
              newMessage |-> [id |-> 1, tokens |-> 1], maxContextTokens |-> 1]


\* -------------------------------------------------------- chat store data
ConversationIds == {"A", "B"}
NoConversation == "noconversation"    \* a null conversation id

Generations == 1..MaxGenerations

\* a send or regeneration and its generateResponse call: not made ("none"),
\* suspended at getContextDebugInfo ("preparing"), running in the engine,
\* or ended ("completed", "failed", "rejected", "stopped"); target and
\* firstTokenReceived are the variables its callbacks close over, context the
\* number of conversation messages in its closure, emitted the engine's
\* tokens, stopRequested whether stopGeneration was called while it ran,
\* finalized the number of finalizeStreamingMessage calls made for it
NoGeneration == [status |-> "none", target |-> NoConversation,
                 firstTokenReceived |-> FALSE, emitted |-> 0, context |-> 0,
                 stopRequested |-> FALSE, finalized |-> 0]

\* a handleStop awaiting stopGeneration: the ref and the text it read, and
\* the generations the engine was running when it was asked to stop
NotStopping == [active |-> FALSE, target |-> NoConversation, text |-> <<>>,
                generations |-> {}]

\* the chat state of a fresh app
chatInit ==
  /\ activeConversationId = NoConversation
  /\ conversations = [c \in ConversationIds |-> <<>>]
  /\ streamingMessage = <<>>
  /\ isStreaming = FALSE
  /\ isThinking = FALSE
  /\ generatingForConversationRef = NoConversation
  /\ debugInfo = NoDebugInfo
  /\ generation = [g \in Generations |-> NoGeneration]
  /\ stopping = NotStopping

\* getContextDebugInfo on the inputs held in prep
contextPrepared ==
  /\ debugInfo = NoDebugInfo
  /\ debugInfo' = prepare(prep.systemPrompt, prep.history, prep.newMessage,
                          prep.maxContextTokens)
  /\ UNCHANGED <<subVars, intentVars, storeVars, loadingState, notified, llmVars, uiVars, task,
                 answer, lastIssued, adm, activeConversationId, conversations,
                 streamingMessage, isStreaming, isThinking,
                 generatingForConversationRef, generation, stopping,
                 prep>>

\* ------------------------------------------------- ChatScreen: generation
\* what the chat handlers leave alone
modelVars == <<storeVars, loadingState, notified, llmVars, uiVars, task,
               answer, lastIssued, adm, prep, listeners, received,
               intentCache, intentCall, intent>>

\* the context length setting, in message estimates
ContextLength == 4

\* the messages a generation is given, each estimated at one token
asContext(n) == [i \in 1..n |-> [id |-> i - 1, tokens |-> 1]]

\* llmService: a generation is running in the engine
isGenerating == \E g \in Generations : generation[g].status = "running"

\* downloadedModels.find((m) => m.id === activeModelId)
activeModel == findTextModel(activeModelId)

\* the next send or regeneration of the run
isNextGeneration(g) ==
  /\ generation[g].status = "none"
  /\ \A h \in Generations : h < g => generation[h].status # "none"

\* useChatStore.clearStreamingMessage
clearStreamingMessage ==
  /\ streamingMessage' = <<>>
  /\ isStreaming' = FALSE
  /\ isThinking' = FALSE

\* useChatStore.finalizeStreamingMessage(conversationId): the streamed text
\* becomes an assistant message of that conversation
finalizeStreamingMessage(conversationId) ==
  /\ conversations' =
       IF streamingMessage # <<>>
         THEN [conversations EXCEPT ![conversationId] =
                 Append(@, [role |-> "assistant", text |-> streamingMessage])]
         ELSE conversations
  /\ clearStreamingMessage

\* the user opens conversation c; the effect on activeConversationId drops
\* the generation ref when it names another conversation
setActiveConversation(c) ==
  /\ c # activeConversationId
  /\ activeConversationId' = c
  /\ generatingForConversationRef' =
       IF generatingForConversationRef # NoConversation
          /\ generatingForConversationRef # c
         THEN NoConversation
         ELSE generatingForConversationRef
  /\ UNCHANGED <<modelVars, conversations, streamingMessage, isStreaming,
                 isThinking, debugInfo, generation, stopping>>

\* handleSend up to its await of getContextDebugInfo; ChatInput is given
\* disabled = !isModelLoaded and isGenerating = isStreaming
handleSend(g) ==
  /\ isNextGeneration(g)
  /\ activeConversationId # NoConversation
  /\ activeModel # NoModel
  /\ isModelLoaded
  /\ ~isStreaming
  /\ generatingForConversationRef' = activeConversationId
  /\ conversations' = [conversations EXCEPT ![activeConversationId] =
                         Append(@, [role |-> "user", text |-> <<>>])]
  /\ generation' = [generation EXCEPT ![g] =
                      [status |-> "preparing", target |-> activeConversationId,
                       firstTokenReceived |-> FALSE, emitted |-> 0,
                       context |-> Len(conversations[activeConversationId]),
                       stopRequested |-> FALSE, finalized |-> 0]]
  /\ UNCHANGED <<modelVars, activeConversationId, streamingMessage, isStreaming,
                 isThinking, debugInfo, stopping>>

\* handleSend from setDebugInfo on: setIsThinking(true) and generateResponse,
\* which the engine rejects while another generation is running
handleSendPrepared(g) ==
  /\ generation[g].status = "preparing"
  /\ debugInfo' = getContextDebugInfo(
                    messagesForContext([id |-> 0, tokens |-> 1],
                                       asContext(generation[g].context),
                                       [id |-> generation[g].context + 1,
                                        tokens |-> 1]),
                    ContextLength)
  /\ IF isGenerating
       THEN /\ generation' = [generation EXCEPT ![g].status = "rejected"]
            /\ IF generatingForConversationRef = generation[g].target
                 THEN clearStreamingMessage
                 ELSE /\ isThinking' = TRUE
                      /\ UNCHANGED <<streamingMessage, isStreaming>>
            /\ generatingForConversationRef' = NoConversation
       ELSE /\ generation' = [generation EXCEPT ![g].status = "running"]
            /\ isThinking' = TRUE
            /\ UNCHANGED <<streamingMessage, isStreaming,
                           generatingForConversationRef>>
  /\ UNCHANGED <<modelVars, activeConversationId, conversations, stopping>>

\* handleRetryMessage / handleEditMessage on the i-th message of the active
\* conversation, a user message: deleteMessagesAfter, then regenerateResponse
regenerateResponse(g, i) ==
  /\ isNextGeneration(g)
  /\ activeConversationId # NoConversation
  /\ activeModel # NoModel
  /\ isModelLoaded
  /\ i \in 1..Len(conversations[activeConversationId])
  /\ conversations[activeConversationId][i].role = "user"
  /\ conversations' = [conversations EXCEPT ![activeConversationId] =
                         SubSeq(@, 1, i)]
  /\ IF isGenerating
       THEN /\ generation' = [generation EXCEPT ![g] =
                 [status |-> "rejected", target |-> activeConversationId,
                  firstTokenReceived |-> FALSE, emitted |-> 0, context |-> i,
                  stopRequested |-> FALSE, finalized |-> 0]]
            /\ clearStreamingMessage
            /\ generatingForConversationRef' = NoConversation
       ELSE /\ generation' = [generation EXCEPT ![g] =
                 [status |-> "running", target |-> activeConversationId,
                  firstTokenReceived |-> FALSE, emitted |-> 0, context |-> i,
                  stopRequested |-> FALSE, finalized |-> 0]]
            /\ isThinking' = TRUE
            /\ generatingForConversationRef' = activeConversationId
            /\ UNCHANGED <<streamingMessage, isStreaming>>
  /\ UNCHANGED <<modelVars, activeConversationId, debugInfo, stopping>>

\* the engine emits a token of generation g
onToken(g) ==
  /\ generation[g].status = "running"
  /\ generation[g].emitted < MaxTokens
  /\ IF generatingForConversationRef # generation[g].target
       THEN /\ generation' = [generation EXCEPT ![g].emitted = @ + 1]
            /\ UNCHANGED <<streamingMessage, isStreaming, isThinking>>
       ELSE /\ generation' = [generation EXCEPT ![g].emitted = @ + 1,
                                                ![g].firstTokenReceived = TRUE]
            /\ IF generation[g].firstTokenReceived
                 THEN UNCHANGED <<isStreaming, isThinking>>
                 ELSE isThinking' = FALSE /\ isStreaming' = TRUE
            /\ streamingMessage' = Append(streamingMessage, g)
  /\ UNCHANGED <<modelVars, activeConversationId, conversations,
                 generatingForConversationRef, debugInfo, stopping>>

\* the engine reports that it is processing the prompt of generation g
onThinking(g) ==
  /\ generation[g].status = "running"
  /\ generation[g].emitted = 0
  /\ isThinking' = (isThinking
                      \/ generatingForConversationRef = generation[g].target)
  /\ UNCHANGED <<modelVars, activeConversationId, conversations,
                 streamingMessage, isStreaming, generatingForConversationRef,
                 debugInfo, generation, stopping>>

\* generation g ends and the engine calls onComplete
onComplete(g) ==
  /\ generation[g].status = "running"
  /\ generation' = [generation EXCEPT
                      ![g].status = "completed",
                      ![g].finalized =
                        IF generatingForConversationRef = generation[g].target
                          THEN @ + 1 ELSE @]
  /\ IF generatingForConversationRef = generation[g].target
       THEN finalizeStreamingMessage(generation[g].target)
       ELSE UNCHANGED <<conversations, streamingMessage, isStreaming, isThinking>>
  /\ generatingForConversationRef' = NoConversation
  /\ UNCHANGED <<modelVars, activeConversationId, debugInfo, stopping>>

\* generation g fails and the engine calls onError
onError(g) ==
  /\ generation[g].status = "running"
  /\ generation' = [generation EXCEPT ![g].status = "failed"]
  /\ IF generatingForConversationRef = generation[g].target
       THEN clearStreamingMessage
       ELSE UNCHANGED <<streamingMessage, isStreaming, isThinking>>
  /\ generatingForConversationRef' = NoConversation
  /\ UNCHANGED <<modelVars, activeConversationId, conversations, debugInfo,
                 stopping>>

\* handleStop up to its await of stopGeneration, which asks the engine to
\* stop what it is running; ChatInput offers the stop button while
\* isGenerating = isStreaming
handleStop ==
  /\ isStreaming
  /\ ~stopping.active
  /\ stopping' = [active |-> TRUE, target |-> generatingForConversationRef,
                  text |-> streamingMessage,
                  generations |-> {g \in Generations :
                                     generation[g].status = "running"}]
  /\ generatingForConversationRef' = NoConversation
  /\ generation' = [g \in Generations |->
                      IF generation[g].status = "running"
                        THEN [generation[g] EXCEPT !.stopRequested = TRUE]
                        ELSE generation[g]]
  /\ UNCHANGED <<modelVars, activeConversationId, conversations,
                 streamingMessage, isStreaming, isThinking, debugInfo>>

\* stopGeneration settles: the engine has stopped what it was running, and
\* handleStop keeps the streamed text or clears it
handleStopSettled ==
  /\ stopping.active
  /\ stopping' = NotStopping
  /\ generation' = [g \in Generations |->
                      [generation[g] EXCEPT
                         !.status = IF @ = "running" THEN "stopped" ELSE @,
                         !.finalized =
                           IF /\ g \in stopping.generations
                              /\ stopping.target # NoConversation
                              /\ stopping.text # <<>>
                             THEN @ + 1 ELSE @]]
  /\ IF stopping.target # NoConversation /\ stopping.text # <<>>
       THEN finalizeStreamingMessage(stopping.target)
       ELSE clearStreamingMessage /\ UNCHANGED conversations
  /\ UNCHANGED <<modelVars, activeConversationId,
                 generatingForConversationRef, debugInfo>>

\* ------------------------------------------------------- specification
Init ==
  /\ downloadedModels = TextModelIds
  /\ modelsOnDisk = TextModelIds
  /\ activeModelId = NoModel
  /\ activeImageModelId = NoModel
  /\ loadingState = [text |-> FALSE, image |-> FALSE]
  /\ notified = 0
  /\ loadedModelPath = NoPath
  /\ visionSupport = FALSE
  /\ isModelLoading = FALSE
  /\ supportsVision = FALSE
  /\ isLoading = FALSE
  /\ isEjecting = FALSE
  /\ task = [p \in Procs |-> Idle]
  /\ answer = NoAnswer
  /\ lastIssued = NoRequest
  /\ adm = [estimate |-> 0, resident |-> 0, total |-> 1, result |-> "none"]
  /\ chatInit
  /\ subInit
  /\ intentInit
  /\ prep = NoPrepare

Next ==
  \/ \E p \in ApiCallers, m \in AllIds : loadTextModel(p, m)
  \/ \E p \in ApiCallers, ok \in BOOLEAN : loadTextModelSettled(p, ok)
  \/ \E p \in ApiCallers : unloadTextModel(p)
  \/ \E p \in ApiCallers, ok \in BOOLEAN : unloadTextModelSettled(p, ok)
  \/ \E p \in ApiCallers, m \in AllIds : loadImageModel(p, m)
  \/ \E p \in ApiCallers, ok \in BOOLEAN : loadImageModelSettled(p, ok)
  \/ \E p \in ApiCallers : unloadImageModel(p)
  \/ \E p \in ApiCallers, ok \in BOOLEAN : unloadImageModelSettled(p, ok)
  \/ handleEjectAll
  \/ \E ok \in BOOLEAN : unloadAllTextSettled(ok)
  \/ \E ok \in BOOLEAN : unloadAllImageSettled(ok)
  \/ \E m \in TextModelIds : handleSelectTextModel(m)
  \/ \E ok \in BOOLEAN : handleSelectTextModelSettled(ok)
  \/ handleUnloadTextModel
  \/ \E ok \in BOOLEAN : handleUnloadTextModelSettled(ok)
  \/ \E m \in ImageModelIds : handleSelectImageModel(m)
  \/ \E ok \in BOOLEAN : handleSelectImageModelSettled(ok)
  \/ handleUnloadImageModel
  \/ \E ok \in BOOLEAN : handleUnloadImageModelSettled(ok)
  \/ loadData
  \/ handleResetApp
  \/ \E ok \in BOOLEAN : handleResetAppSettled(ok)
  \/ \E m \in TextModelIds : handleModelSelect(m)
  \/ \E ok \in BOOLEAN : handleModelSelectSettled(ok)
  \/ handleUnloadModel
  \/ \E ok \in BOOLEAN : handleUnloadModelSettled(ok)
  \/ ensureModelLoaded
  \/ \E ok \in BOOLEAN : ensureModelLoadedUnloaded(ok)
  \/ \E ok \in BOOLEAN : ensureModelLoadedSettled(ok)
  \/ \E m \in TextModelIds \cup {NoModel}, s \in Strategies : classifyWithLLM(m, s)
  \/ \E ok \in BOOLEAN : classifySwapSettled(ok)
  \/ \E r \in {"yes", "no", "generate error"} : classifyGenerateSettled(r)
  \/ \E ok \in BOOLEAN : classifyRestoreSettled(ok)

Spec == Init /\ [][Next]_vars

\* ActiveModelService's load and unload operations under concurrent callers,
\* with the reset and refresh that change the set of downloaded models
NextService ==
  \/ \E p \in ApiCallers, m \in AllIds : loadTextModel(p, m)
  \/ \E p \in ApiCallers, ok \in BOOLEAN : loadTextModelSettled(p, ok)
  \/ \E p \in ApiCallers : unloadTextModel(p)
  \/ \E p \in ApiCallers, ok \in BOOLEAN : unloadTextModelSettled(p, ok)
  \/ \E p \in ApiCallers, m \in AllIds : loadImageModel(p, m)
  \/ \E p \in ApiCallers, ok \in BOOLEAN : loadImageModelSettled(p, ok)
  \/ \E p \in ApiCallers : unloadImageModel(p)
  \/ \E p \in ApiCallers, ok \in BOOLEAN : unloadImageModelSettled(p, ok)
  \/ loadData
  \/ handleResetApp
  \/ \E ok \in BOOLEAN : handleResetAppSettled(ok)

SpecService == Init /\ [][NextService]_vars

\* the admission decision on every input of the bounded range
InitAdm ==
  /\ downloadedModels = TextModelIds
  /\ modelsOnDisk = TextModelIds
  /\ activeModelId = NoModel
  /\ activeImageModelId = NoModel
  /\ loadingState = [text |-> FALSE, image |-> FALSE]
  /\ notified = 0
  /\ loadedModelPath = NoPath
  /\ visionSupport = FALSE
  /\ isModelLoading = FALSE
  /\ supportsVision = FALSE
  /\ isLoading = FALSE
  /\ isEjecting = FALSE
  /\ task = [p \in Procs |-> Idle]
  /\ answer = NoAnswer
  /\ lastIssued = NoRequest
  /\ adm \in [estimate : 0..MaxMem, resident : 0..MaxMem, total : 1..MaxMem,
              result : {"none"}]
  /\ chatInit
  /\ subInit
  /\ intentInit
  /\ prep = NoPrepare

NextAdm == checkMemory

SpecAdm == InitAdm /\ [][NextAdm]_vars

\* the classifier's temporary swap next to ChatScreen's model selector
NextClassify ==
  \/ \E m \in TextModelIds : handleModelSelect(m)
  \/ \E ok \in BOOLEAN : handleModelSelectSettled(ok)
  \/ handleUnloadModel
  \/ \E ok \in BOOLEAN : handleUnloadModelSettled(ok)
  \/ \E m \in TextModelIds \cup {NoModel}, s \in Strategies : classifyWithLLM(m, s)
  \/ \E ok \in BOOLEAN : classifySwapSettled(ok)
  \/ \E r \in {"yes", "no", "generate error"} : classifyGenerateSettled(r)
  \/ \E ok \in BOOLEAN : classifyRestoreSettled(ok)

SpecClassify == Init /\ [][NextClassify]_vars

\* the context preparation on every input of the bounded range
InitPrepare ==
  /\ downloadedModels = TextModelIds
  /\ modelsOnDisk = TextModelIds
  /\ activeModelId = NoModel
  /\ activeImageModelId = NoModel
  /\ loadingState = [text |-> FALSE, image |-> FALSE]
  /\ notified = 0
  /\ loadedModelPath = NoPath
  /\ visionSupport = FALSE
  /\ isModelLoading = FALSE
  /\ supportsVision = FALSE
  /\ isLoading = FALSE
  /\ isEjecting = FALSE
  /\ task = [p \in Procs |-> Idle]
  /\ answer = NoAnswer
  /\ lastIssued = NoRequest
  /\ adm = [estimate |-> 0, resident |-> 0, total |-> 1, result |-> "none"]
  /\ chatInit
  /\ subInit
  /\ intentInit
  /\ prep \in PrepareInputs

NextPrepare == contextPrepared

SpecPrepare == InitPrepare /\ [][NextPrepare]_vars

\* the chat screen with the active model loaded: sends, regenerations,
\* conversation switches, stops and the engine's callbacks
InitChat ==
  /\ downloadedModels = TextModelIds
  /\ modelsOnDisk = TextModelIds
  /\ activeModelId = "small"
  /\ activeImageModelId = NoModel
  /\ loadingState = [text |-> FALSE, image |-> FALSE]
  /\ notified = 0
  /\ loadedModelPath = filePath["small"]
  /\ visionSupport = FALSE
  /\ isModelLoading = FALSE
  /\ supportsVision = FALSE
  /\ isLoading = FALSE
  /\ isEjecting = FALSE
  /\ task = [p \in Procs |-> Idle]
  /\ answer = NoAnswer
  /\ lastIssued = NoRequest
  /\ adm = [estimate |-> 0, resident |-> 0, total |-> 1, result |-> "none"]
  /\ chatInit
  /\ subInit
  /\ intentInit
  /\ prep = NoPrepare

NextChat ==
  \/ \E c \in ConversationIds : setActiveConversation(c)
  \/ \E g \in Generations : handleSend(g)
  \/ \E g \in Generations : handleSendPrepared(g)
  \/ \E g \in Generations, i \in 1..(2 * MaxGenerations) : regenerateResponse(g, i)
  \/ \E g \in Generations : onToken(g)
  \/ \E g \in Generations : onThinking(g)
  \/ \E g \in Generations : onComplete(g)
  \/ \E g \in Generations : onError(g)
  \/ handleStop
  \/ handleStopSettled

SpecChat == InitChat /\ [][NextChat]_vars

\* the service's API with listeners subscribing and unsubscribing
NextSubscribe ==
  \/ \E p \in ApiCallers, m \in TextModelIds : loadTextModel(p, m)
  \/ \E p \in ApiCallers, ok \in BOOLEAN : loadTextModelSettled(p, ok)
  \/ \E p \in ApiCallers : unloadTextModel(p)
  \/ \E p \in ApiCallers, ok \in BOOLEAN : unloadTextModelSettled(p, ok)
  \/ \E l \in Listeners : subscribe(l)
  \/ \E l \in Listeners : unsubscribe(l)

SpecSubscribe == Init /\ [][NextSubscribe]_vars

\* the messages classified: one an image pattern matches, one a text pattern
\* matches, one no pattern matches and no length rule decides
IntentMessages ==
  {[id |-> 1, image |-> TRUE, text |-> FALSE, length |-> 10, runs |-> <<>>],
   [id |-> 2, image |-> FALSE, text |-> TRUE, length |-> 27, runs |-> <<>>],
   [id |-> 3, image |-> FALSE, text |-> FALSE, length |-> 16, runs |-> <<>>]}

\* the classifier next to ChatScreen's model selector
NextIntent ==
  \/ \E m \in TextModelIds : handleModelSelect(m)
  \/ \E ok \in BOOLEAN : handleModelSelectSettled(ok)
  \/ \E message \in IntentMessages, useLLM \in BOOLEAN,
        m \in TextModelIds \cup {NoModel}, s \in Strategies :
          classifyIntent(message, useLLM, m, s)
  \/ \E ok \in BOOLEAN : classifySwapSettled(ok)
  \/ \E r \in {"yes", "no", "generate error"} : classifyGenerateSettled(r)
  \/ \E ok \in BOOLEAN : classifyRestoreSettled(ok)
  \/ \E message \in IntentMessages : quickCheck(message)
  \/ clearCache

SpecIntent == Init /\ [][NextIntent]_vars

\* the trimmed messages handed to the pattern stage: every combination of a
\* match of the image patterns, a match of the text patterns, a length on
\* either side of the two limits, and terminators alone, in one run or in two
PatternMessages ==
  {[id |-> 1, image |-> i, text |-> t, length |-> n, runs |-> r] :
     i \in BOOLEAN, t \in BOOLEAN, n \in {5, 9, 10, 100, 101},
     r \in {<<>>, <<1>>, <<3>>, <<1, 1>>}}

\* the pattern stage on an empty cache
NextPattern ==
  \/ \E message \in PatternMessages :
       /\ intentCache = <<>>
       /\ classifyIntent(message, FALSE, NoModel, "undefined")
  \/ \E message \in PatternMessages : quickCheck(message)
  \/ clearCache

SpecPattern == Init /\ [][NextPattern]_vars

\* the sends made next to the model selector
SelectorGenerations == 1..(MaxGenerations - 1)

\* the chat screen's generations next to its model selector: a send runs
\* while the user selects another model or unloads the loaded one; the
\* loading view replaces the input while isModelLoading
NextSelector ==
  \/ \E c \in ConversationIds : setActiveConversation(c)
  \/ \E g \in SelectorGenerations : ~isModelLoading /\ handleSend(g)
  \/ \E g \in SelectorGenerations : handleSendPrepared(g)
  \/ \E g \in SelectorGenerations : onToken(g)
  \/ \E g \in SelectorGenerations : onComplete(g)
  \/ \E m \in TextModelIds : handleModelSelect(m)
  \/ \E ok \in BOOLEAN : handleModelSelectSettled(ok)
  \/ handleUnloadModel
  \/ handleUnloadModelStopped
  \/ \E ok \in BOOLEAN : handleUnloadModelSettled(ok)

SpecSelector == InitChat /\ [][NextSelector]_vars

\* the messages classified while the cache fills: distinct messages that
\* the patterns decide, image and text requests in turn
MaxCacheMessages == 121

CacheMessage(n) ==
  [id |-> n, image |-> n % 2 = 1, text |-> n % 2 = 0, length |-> 10,
   runs |-> <<>>]

\* the next call is for a message not seen before, or for the oldest one
\* that is cached
nextFresh ==
  IF intentCache # <<>> THEN intentCache[Len(intentCache)].key.id + 1
  ELSE IF intent.op = "classifyIntent" THEN intent.key.id + 1
  ELSE 1

CacheInputs ==
  {CacheMessage(n) : n \in {nextFresh} \cap (1..MaxCacheMessages)}
    \cup (IF intentCache # <<>> THEN {Head(intentCache).key} ELSE {})

\* the cache under a run of classifications and clears
NextCache ==
  \/ \E message \in CacheInputs :
       classifyIntent(message, FALSE, NoModel, "undefined")
  \/ clearCache

SpecCache == Init /\ [][NextCache]_vars

\* ---------------------------------------------------------------- claims
\* the callers whose engine call on the text / image slot is in flight
textCallsInFlight == {p \in Procs : task[p].tcall \in {"load", "unload"}}
imageCallsInFlight == {p \in Procs : task[p].icall \in {"load", "unload"}}

\* C1: for each slot, at most one load, unload or swap has its engine call
\* in flight at any time
C1_MutualExclusion ==
  /\ Cardinality(textCallsInFlight) <= 1
  /\ Cardinality(imageCallsInFlight) <= 1

\* C2: when a load of D2 was issued while a load of D1 was pending, then once
\* both have resolved the text slot holds D2, the request issued last
C2_LastIssuedWins ==
  (/\ lastIssued.status = "ok"
   /\ textCallsInFlight = {})
  => /\ activeModelId = lastIssued.arg
     /\ loadedModelPath = filePath[lastIssued.arg]

\* C3: the text model reported by getActiveModels is non-null exactly when
\* the engine has a model loaded, and the engine holds that model's file
C3_ReportedMatchesEngine ==
  /\ (getActiveModels.text.model # NoModel) <=> isModelLoaded
  /\ isModelLoaded => /\ activeModelId # NoModel
                      /\ getLoadedModelPath = filePath[activeModelId]

\* C4: getActiveModels never reports a slot both loading and loaded
C4_LoadingXorLoaded ==
  /\ ~(getActiveModels.text.isLoading /\ getActiveModels.text.isLoaded)
  /\ ~(getActiveModels.image.isLoading /\ getActiveModels.image.isLoaded)

\* the text slot holds model m, loaded, with nothing in progress on it
textSlotLoadedWith(m) ==
  /\ activeModelId = m
  /\ isModelLoaded /\ getLoadedModelPath = filePath[m]
  /\ ~loadingState.text
  /\ textCallsInFlight = {}

\* C5: a load of the model the text slot already holds, loaded, issues no
\* engine call and leaves the slot's state unchanged
C5_IdempotentLoad ==
  [][\A p \in ApiCallers, m \in TextModelIds :
       (textSlotLoadedWith(m) /\ loadTextModel(p, m))
         => /\ task'[p].tcall = "none"
            /\ UNCHANGED <<loadingState, activeModelId, llmVars>>]_vars

\* C6: no engine load call is started for a model whose admission check
\* says Block in the state the load is requested in
C6_LoadsAreAdmitted ==
  [][\A p \in ApiCallers :
       /\ (task[p].tcall # "load" /\ task'[p].tcall = "load")
            => checkMemoryForModel(task'[p].arg, "text") # "Block"
       /\ (task[p].icall # "load" /\ task'[p].icall = "load")
            => checkMemoryForModel(task'[p].arg, "image") # "Block"]_vars

C8_RejectedLoadEmpties ==
  /\ (answer.op = "loadTextModel" /\ answer.res = "engine error")
       => /\ getActiveModels.text.model = NoModel
          /\ ~getActiveModels.text.isLoaded
          /\ ~getActiveModels.text.isLoading
  /\ (answer.op = "loadImageModel" /\ answer.res = "engine error")
       => /\ getActiveModels.image.model = NoModel
          /\ ~getActiveModels.image.isLoaded
          /\ ~getActiveModels.image.isLoading

\* C9: a load of an id that is not among the downloaded models is refused
\* with an error and changes nothing: no engine call, no loading flag, the
\* active ids and the engine as before, no listener notified
C9_UnknownModelRefused ==
  [][\A p \in ApiCallers, m \in AllIds :
       /\ (m \notin downloadedModels /\ loadTextModel(p, m))
            => /\ answer' = Answer("loadTextModel", m, "Model not found")
               /\ notified' = 0
               /\ UNCHANGED <<task, loadingState, activeModelId,
                              activeImageModelId, llmVars>>
       /\ (m \notin ImageModelIds /\ loadImageModel(p, m))
            => /\ answer' = Answer("loadImageModel", m, "Model not found")
               /\ notified' = 0
               /\ UNCHANGED <<task, loadingState, activeModelId,
                              activeImageModelId, llmVars>>]_vars

\* C9 witness: a load of a text model that was deleted has been refused
C9_Witness ==
  /\ answer.op = "loadTextModel" /\ answer.res = "Model not found"
  /\ answer.arg \in TextModelIds
  /\ answer.arg \notin downloadedModels

\* C10: when unloadAllModels resolves, no slot is loaded and both active
\* model ids are null
C10_UnloadAllEmpties ==
  (answer.op = "unloadAllModels" /\ answer.res = "ok")
    => /\ activeModelId = NoModel
       /\ activeImageModelId = NoModel
       /\ ~getActiveModels.text.isLoaded
       /\ ~getActiveModels.image.isLoaded

\* C11: when the generation of a classification that swapped models ends,
\* in success or in failure, 'performance' (also when the strategy is not
\* given) issues a reload of the model that was loaded before the swap, and
\* the reload leaves that model in the engine; 'memory' issues no reload and
\* leaves the engine as it is
C11_SwapRestore ==
  [][LET p == <<"classify", 0>>
         r == task[p]
     IN
     /\ (r.tcall = "generate" /\ r.needsModelSwap /\ task'[p] # r)
          => IF r.strategy \in {"performance", "undefined"}
                  /\ r.originalModelPath # NoPath
               THEN /\ task'[p].tcall = "load"
                    /\ task'[p].path = r.originalModelPath
                    /\ UNCHANGED llmVars
               ELSE /\ task'[p] = Idle
                    /\ UNCHANGED llmVars
     /\ (r.tcall = "load" /\ r.response # "none" /\ task'[p] # r
           /\ answer'.res # "engine error")
          => loadedModelPath' = r.originalModelPath]_vars

\* C11 witness: with no strategy given, the reload of the original model
\* has been issued after a swapped classification
C11_Witness ==
  LET r == task[<<"classify", 0>>] IN
  /\ r.tcall = "load" /\ r.response # "none"
  /\ r.strategy = "undefined"
  /\ r.path = r.originalModelPath /\ r.path # filePath[r.arg]

\* C12: a model that has an mmproj companion is never in the engine
\* without it
C12_VisionHasCompanion ==
  \A m \in TextModelIds :
    (getLoadedModelPath = filePath[m] /\ mmProjPath[m] # NoPath) => visionSupport

\* the estimate of [system] + the history without its k oldest + newMessage
estimateWithout(k) ==
  estimateTokens(<<prep.systemPrompt>>
                 \o SubSeq(prep.history, k + 1, Len(prep.history))
                 \o <<prep.newMessage>>)

\* C13: the prepared context always holds the system message and the new
\* message; when only those two fit, every history message is counted as
\* truncated; when not even those two fit, the preparation still returns
\* and reports a context usage above 100 percent
C13_PrepareKeepsEnds ==
  debugInfo # NoDebugInfo =>
    LET out == debugInfo.messages
        n == Len(prep.history)
    IN
    /\ Len(out) >= 2
    /\ out[1] = prep.systemPrompt
    /\ out[Len(out)] = prep.newMessage
    /\ (n > 0 /\ estimateWithout(n) <= prep.maxContextTokens
          /\ estimateWithout(n - 1) > prep.maxContextTokens)
         => debugInfo.truncatedCount = n
    /\ estimateWithout(n) > prep.maxContextTokens
         => /\ debugInfo.truncatedCount = n
            /\ debugInfo.contextUsagePercent > 100

\* C13 witness: a preparation whose budget is below the system message and
\* the new message alone has returned, with a history to drop
C13_Witness ==
  /\ debugInfo # NoDebugInfo
  /\ Len(prep.history) = 2
  /\ estimateWithout(Len(prep.history)) > prep.maxContextTokens
  /\ debugInfo.managedMessageCount = 2

\* C14: the prepared context is [system], the history without its k oldest
\* messages in the original order, newMessage, where k is the least number
\* of dropped messages for which the estimate fits (all of them when none
\* does), and truncatedCount is k
C14_GreedyOldestFirst ==
  debugInfo # NoDebugInfo =>
    LET n == Len(prep.history)
        fits == {j \in 0..n : estimateWithout(j) <= prep.maxContextTokens}
        k == IF fits = {} THEN n
             ELSE CHOOSE j \in fits : \A i \in fits : j <= i
    IN
    /\ debugInfo.truncatedCount = k
    /\ debugInfo.messages = <<prep.systemPrompt>>
                              \o SubSeq(prep.history, k + 1, n)
                              \o <<prep.newMessage>>

\* C14 witness: a preparation has dropped some of the history, not all
C14_Witness ==
  /\ debugInfo # NoDebugInfo
  /\ debugInfo.truncatedCount > 0
  /\ debugInfo.truncatedCount < Len(prep.history)

\* C15: every piece of text recorded as an assistant message of a conversation
\* was produced by a generation started for that conversation; no text of a
\* generation for A is finalized into another conversation.
C15_TextStaysInItsConversation ==
  \A c \in ConversationIds : \A i \in 1..Len(conversations[c]) :
    LET m == conversations[c][i] IN
      m.role = "assistant" =>
        \A j \in 1..Len(m.text) : generation[m.text[j]].target = c

\* C16: switching the active conversation does not cancel: when a generation
\* completes with text and no stop was requested, its conversation gains an
\* assistant message holding every token the engine emitted for it.
C16_SwitchIsNotCancellation ==
  [][\A g \in Generations :
       (/\ generation[g].status = "running"
        /\ generation'[g].status = "completed"
        /\ generation[g].emitted > 0
        /\ ~stopping.active)
         => LET c == generation[g].target IN
              conversations'[c] =
                Append(conversations[c],
                       [role |-> "assistant",
                        text |-> [k \in 1..generation[g].emitted |-> g]])]_vars

\* C17: a later send or regeneration for a conversation invalidates the
\* earlier ones for it: once it is issued, no token of an earlier generation
\* for that conversation is appended to the streaming buffer, and the
\* completion of an earlier one finalizes nothing.
C17_NewSendSupersedes ==
  [][\A g \in Generations :
       (\E h \in Generations :
          /\ h > g
          /\ generation[h].status # "none"
          /\ generation[h].target = generation[g].target)
         => /\ streamingMessage' # Append(streamingMessage, g)
            /\ (generation[g].status = "running"
                /\ generation'[g].status = "completed")
                 => conversations' = conversations]_vars

\* C18: stopping keeps the partial output: when stopGeneration settles for a
\* running generation, the text streamed before the stop was pressed, if any,
\* becomes an assistant message of that generation's conversation, and with
\* no text streamed no message is added.
C18_StopKeepsPartialText ==
  [][\A g \in Generations :
       (/\ stopping.active /\ ~stopping'.active
        /\ generation[g].status = "running")
         => LET c == generation[g].target IN
              IF stopping.text # <<>>
                THEN conversations'[c] =
                       Append(conversations[c],
                              [role |-> "assistant", text |-> stopping.text])
                ELSE conversations' = conversations]_vars

\* C19: the thinking and streaming flags are never both set.
C19_ThinkingXorStreaming == ~(isThinking /\ isStreaming)

\* C20: no generation is left in Thinking or Streaming: once every send has
\* ended (completed, failed, rejected or stopped) and no stop is pending,
\* both flags are false.
C20_EndedMeansIdle ==
  (/\ \A g \in Generations : generation[g].status \notin {"preparing", "running"}
   /\ ~stopping.active)
    => (~isThinking /\ ~isStreaming)

\* C21: a token the engine delivers for a generation after stopGeneration was
\* called on it is dropped: it is never appended to the streaming buffer.
C21_LateTokensDropped ==
  [][\A g \in Generations :
       generation[g].stopRequested
         => streamingMessage' # Append(streamingMessage, g)]_vars

\* C22: an engine error discards the partial text: when a generation's
\* onError fires, or its generateResponse call is rejected, the streaming
\* buffer is empty afterwards and no assistant message is added.
C22_ErrorDiscardsPartialText ==
  [][\A g \in Generations :
       (/\ generation[g].status \in {"preparing", "running"}
        /\ generation'[g].status \in {"failed", "rejected"})
         => /\ streamingMessage' = <<>>
            /\ conversations' = conversations]_vars

\* C23: subscribe calls the new listener at once with the current state, and
\* a listener that is not subscribed is not called.
C23_SubscribeDeliversState ==
  [][\A l \in Listeners :
       /\ (l \notin listeners /\ l \in listeners')
            => received'[l] = [called |-> TRUE, info |-> getActiveModels']
       /\ (l \notin listeners /\ l \notin listeners')
            => received'[l] = received[l]]_vars

\* C24: classifyIntent never throws because of the LLM: when classifyWithLLM
\* throws (no model loaded, a load fails, generateResponse rejects), the call
\* returns 'text'; and with useLLM false the engine is not called.
C24_LLMFailureFallsBackToText ==
  [][/\ (/\ answer'.op = "classifyWithLLM"
         /\ answer'.res \notin Intents
         /\ \/ intentCall.active /\ ~intentCall'.active
            \/ \E message \in IntentMessages,
                  m \in TextModelIds \cup {NoModel}, s \in Strategies :
                    /\ cacheGet(message) = "null"
                    /\ classifyByPattern(message) = "null"
                    /\ ~intentCall.active /\ ~intentCall'.active
                    /\ classifyIntent(message, TRUE, m, s))
          => /\ intent'.op = "classifyIntent"
             /\ intent'.result = "text"
     /\ \/ UNCHANGED <<task, llmVars>>
        \/ \A message \in IntentMessages,
              m \in TextModelIds \cup {NoModel}, s \in Strategies :
             ~classifyIntent(message, FALSE, m, s)]_vars

\* an uncertain message whose LLM classification failed was answered 'text'
C24_Witness ==
  /\ intent.op = "classifyIntent"
  /\ classifyByPattern(intent.key) = "null"
  /\ intent.result = "text"
  /\ answer.op = "classifyWithLLM"
  /\ answer.res = "generate error"

\* the number of terminator characters of a message
RECURSIVE sumOf(_)
sumOf(runs) == IF runs = <<>> THEN 0 ELSE Head(runs) + sumOf(Tail(runs))

\* the precedence of the pattern stage, for a given count of sentence ends
precedence(message, count) ==
  IF message.image THEN "image"
  ELSE IF message.text THEN "text"
  ELSE IF message.length < 10 \/ (message.length > 100 /\ count >= 2) THEN "text"
  ELSE "null"

\* what classifyIntent with useLLM false on an empty cache, and quickCheck,
\* do when the pattern stage gives e: a decided result is returned and
\* cached by classifyIntent, an uncertain one is returned as 'text', uncached
followsPrecedence(message, e) ==
  /\ (intentCache = <<>> /\ classifyIntent(message, FALSE, NoModel, "undefined"))
       => /\ intent'.result = (IF e = "null" THEN "text" ELSE e)
          /\ intentCache' = IF e = "null" THEN <<>>
                            ELSE <<[key |-> message, intent |-> e]>>
  /\ quickCheck(message)
       => intent'.result = (IF e = "null" THEN "text" ELSE e)

\* C25 as stated: image patterns first, then text patterns, then a message
\* under 10 characters or one over 100 characters with at least 2 sentence
\* terminators is 'text', and anything else is uncertain.
C25_PatternPrecedence ==
  [][\A message \in PatternMessages :
       followsPrecedence(message, precedence(message, sumOf(message.runs)))]_vars

\* C25 amended: the long-message rule counts the runs of sentence terminators
\* (the matches of /[.!?]+/g), not the terminator characters: a message over
\* 100 characters is 'text' when it has at least 2 such runs.
C25_PatternPrecedenceByRuns ==
  [][\A message \in PatternMessages :
       followsPrecedence(message, precedence(message, sentenceCount(message)))]_vars

\* a message matching both kinds of pattern was classified 'image', and
\* cached
C25_Witness ==
  /\ intent.op = "classifyIntent"
  /\ intent.key.image /\ intent.key.text
  /\ intent.result = "image"
  /\ intentCache = <<[key |-> intent.key, intent |-> "image"]>>

\* C26: when an older generation G1, started for conversation A, completes
\* or fails while the ref names the conversation B of a newer generation G2
\* that is being prepared or is running, the ref still names B afterwards.
C26_OldCallbackKeepsNewTag ==
  [][\A g1, g2 \in Generations :
       (/\ g1 < g2
        /\ generation[g1].status = "running"
        /\ generation'[g1].status \in {"completed", "failed"}
        /\ generation[g2].status \in {"preparing", "running"}
        /\ generation[g2].target # generation[g1].target
        /\ generatingForConversationRef = generation[g2].target)
         => generatingForConversationRef' = generation[g2].target]_vars

\* C27: the engine is never given an unload or a load of the text model
\* while a generateResponse call is unresolved: after a step that issues
\* such a call no generation is running.
C27_NoUnloadWhileGenerating ==
  [][\A p \in Procs :
       (task[p].tcall \notin {"load", "unload"}
        /\ task'[p].tcall \in {"load", "unload"})
         => ~isGenerating']_vars

\* C28: finalizeStreamingMessage is called at most once for a generation,
\* whatever the order of handleStop's two halves and the engine's
\* onComplete / onError for it.
C28_FinalizedAtMostOnce ==
  \A g \in Generations : generation[g].finalized <= 1

\* C29: the cache never holds more than CACHE_MAX_SIZE (100) entries; an
\* insertion that finds it at the limit first drops the 20 entries inserted
\* earliest and then adds the new one; clearCache leaves it empty.
C29_CacheBounded ==
  [][/\ Len(intentCache') <= 100
     /\ (Len(intentCache) = 100 /\ intent' # intent
         /\ intentCache' # intentCache)
          => intentCache' =
               Append(SubSeq(intentCache, 21, 100),
                      [key |-> intent'.key, intent |-> intent'.result])
     /\ clearCache => intentCache' = <<>>]_vars

\* the 101st distinct message was cached: the first 20 are gone
C29_Witness ==
  /\ Len(intentCache) = 81
  /\ Head(intentCache).key.id = 21
  /\ intentCache[81].key.id = 101
  /\ intent.op = "classifyIntent" /\ intent.key.id = 101

\* C30: the cache is written only with a decided result: a step that changes
\* the cache is clearCache or a return of classifyIntent whose result comes
\* from a pattern match or from a successful LLM classification, stored
\* under the message; so the default 'text' of an uncertain message leaves
\* the message uncached.  quickCheck returns the pattern result whatever the
\* cache holds and leaves the cache as it is.
C30_OnlyDecidedResultsCached ==
  [][/\ intentCache' # intentCache
          => \/ clearCache
             \/ /\ intent'.op = "classifyIntent"
                /\ \/ classifyByPattern(intent'.key) = intent'.result
                   \/ /\ intentCall.active /\ ~intentCall'.active
                      /\ intentCall.key = intent'.key
                      /\ answer'.op = "classifyWithLLM"
                      /\ answer'.res = intent'.result
                      /\ answer'.res \in Intents
                /\ intentCache' = cacheIntent(intentCache, intent'.key,
                                              intent'.result)
     /\ (intent'.op = "quickCheck" /\ intent' # intent)
          => /\ intentCache' = intentCache
             /\ intent'.result =
                  IF classifyByPattern(intent'.key) = "null" THEN "text"
                  ELSE classifyByPattern(intent'.key)]_vars

\* an uncertain message got the default 'text' after the LLM failed, and is
\* not in the cache, which holds other messages
C30_Witness ==
  /\ intent.op = "classifyIntent" /\ intent.result = "text"
  /\ classifyByPattern(intent.key) = "null"
  /\ answer.op = "classifyWithLLM" /\ answer.res \notin Intents
  /\ intentCache # <<>>
  /\ cacheGet(intent.key) = "null"

====
